---- MODULE Spec2Model ----
(***************************************************************************)
(* TaskFlow: the dual-backend task persistence layer.                      *)
(*                                                                         *)
(*   memoryStore.js      the in-memory store (tasks, nextId, InMemoryTask) *)
(*   models/Task.js      the Mongoose schema of the document store         *)
(*   taskController.js   the controller written against Task ("Full")      *)
(*   simplified controller (getTaskModel per request)        ("Simple")    *)
(*                                                                         *)
(* Identifiers.  The in-memory store hands out String(nextId): "1", "2",   *)
(* ... modelled as the naturals 1, 2, ...  The document store hands out    *)
(* ObjectIds, modelled as the naturals above 100; only these pass          *)
(* mongoose.Types.ObjectId.isValid.                                        *)
(*                                                                         *)
(* Time.  `now` is the wall clock in ticks; every `new Date()` / Date.now  *)
(* reads it, and it may advance between two reads of one handler.          *)
(*                                                                         *)
(* Every stored task carries one ghost field, origId: the identifier the   *)
(* store assigned when the task was created.  No operation reads it.       *)
(***************************************************************************)
EXTENDS Integers, Sequences, FiniteSets, TLC

\* ------------------------------------------------------------------ bounds
MaxTasks == 2        \* tasks created (both stores together) before the model stops creating
MaxTime  == 1        \* last tick of the clock
MaxTimed == 1        \* tasks created before the specifications of one task stop creating
DayLength == 2       \* ticks of the clock in a calendar day

\* -------------------------------------------------------------- identifiers
\* The n-th ObjectId the document store generates.
ObjectId(n) == 100 + n

\* mongoose.Types.ObjectId.isValid(id)
isValid(id) == id > 100

MemIds    == 1..MaxTasks
ObjectIds == { ObjectId(n) : n \in 1..MaxTasks }
ReqIds    == MemIds \cup ObjectIds      \* ids a request may name
FarFuture == MaxTime + 1                \* a client-supplied date after every clock read

Null == [null |-> TRUE]                 \* null / undefined, where a task is expected
NoDate == 0 - 1                         \* null, where a date is expected
EmptyObject == [x \in {} |-> TRUE]      \* {} (and, as a sequence, [])

\* ------------------------------------------------------------------ inputs
\* Creation payloads (req.body of createTask).
Payloads ==
  { [text |-> "buy milk"],
    [text |-> "Fix bug", completed |-> TRUE, priority |-> "high", category |-> "work"] }

\* Update payloads (req.body of updateTask): ordinary patches and patches that
\* carry identifier or timestamp fields.
Patches ==
  { [completed |-> TRUE],
    [_id |-> 1, id |-> 1],
    [createdAt |-> FarFuture, lastModified |-> 0, updatedAt |-> 0] }

\* Filters of find / countDocuments.
Filters ==
  { EmptyObject,
    [completed |-> TRUE],
    [completed |-> FALSE],
    [priority |-> "high"],
    [category |-> "work"],
    [search |-> "bug"] }

\* ----------------------------------------------------------------- helpers
Has(r, k) == k \in DOMAIN r

\* taskData.k || dflt
OrDefault(r, k, dflt) == IF Has(r, k) THEN r[k] ELSE dflt

\* { ...a, ...b }
Spread(a, b) ==
  [k \in DOMAIN a \cup DOMAIN b |-> IF k \in DOMAIN b THEN b[k] ELSE a[k]]

\* The fields of r outside ks.
Without(r, ks) == [k \in DOMAIN r \ ks |-> r[k]]

\* The fields of r in ks.
Only(r, ks) == [k \in DOMAIN r \cap ks |-> r[k]]

\* s.toLowerCase().includes(term), for the texts and terms of the inputs.
Includes(s, term) ==
  \/ term = "b"    /\ s \in {"Fix bug", "buy milk"}
  \/ term = "bug"  /\ s \in {"Fix bug"}
  \/ term = "milk" /\ s \in {"buy milk"}
  \/ term = "work" /\ s \in {"work"}

\* A text of MaxLength + 1 = 256 characters.
TooLongText ==
  "xxxxxxxxxxxxxxxxxxxxxxxxxxxxxxxxxxxxxxxxxxxxxxxxxxxxxxxxxxxxxxxxxxxxxxxxxxxxxxxxxxxxxxxxxxxxxxxxxxxxxxxxxxxxxxxxxxxxxxxxxxxxxxxxxxxxxxxxxxxxxxxxxxxxxxxxxxxxxxxxxxxxxxxxxxxxxxxxxxxxxxxxxxxxxxxxxxxxxxxxxxxxxxxxxxxxxxxxxxxxxxxxxxxxxxxxxxxxxxxxxxxxxxxxxxxxxxxx"

\* String.prototype.trim, for the texts of the inputs.
Trim(s) ==
  IF s = " ab " THEN "ab"
  ELSE IF s = "  " THEN ""
  ELSE IF s = "b " THEN "b"
  ELSE s

\* A text of MaxLength + 1 = 256 characters with two adjacent spaces, and the
\* same text with one space: MaxLength = 255 characters.
LongSpacedText ==
  "a  xxxxxxxxxxxxxxxxxxxxxxxxxxxxxxxxxxxxxxxxxxxxxxxxxxxxxxxxxxxxxxxxxxxxxxxxxxxxxxxxxxxxxxxxxxxxxxxxxxxxxxxxxxxxxxxxxxxxxxxxxxxxxxxxxxxxxxxxxxxxxxxxxxxxxxxxxxxxxxxxxxxxxxxxxxxxxxxxxxxxxxxxxxxxxxxxxxxxxxxxxxxxxxxxxxxxxxxxxxxxxxxxxxxxxxxxxxxxxxxxxxxxxxxxxxxxx"

LongCollapsedText ==
  "a xxxxxxxxxxxxxxxxxxxxxxxxxxxxxxxxxxxxxxxxxxxxxxxxxxxxxxxxxxxxxxxxxxxxxxxxxxxxxxxxxxxxxxxxxxxxxxxxxxxxxxxxxxxxxxxxxxxxxxxxxxxxxxxxxxxxxxxxxxxxxxxxxxxxxxxxxxxxxxxxxxxxxxxxxxxxxxxxxxxxxxxxxxxxxxxxxxxxxxxxxxxxxxxxxxxxxxxxxxxxxxxxxxxxxxxxxxxxxxxxxxxxxxxxxxxxx"

\* text.replace(/\s+/g, ' ').trim(), for the texts of the inputs.
Collapse(s) ==
  IF s = "a  b" THEN "a b"
  ELSE IF s = LongSpacedText THEN LongCollapsedText
  ELSE Trim(s)

\* String.prototype.toLowerCase, for the priorities of the inputs.
Lower(s) ==
  IF s = "HIGH" THEN "high"
  ELSE IF s = "New" THEN "new"
  ELSE s

\* new Date().setHours(0, 0, 0, 0): the start of the day of the clock read t.
StartOfDay(t) == t - (t % DayLength)

\* Array.prototype.findIndex: the first index whose element satisfies P, 0 for -1.
FindIndex(s, P(_)) ==
  IF \E i \in 1..Len(s) : P(s[i])
  THEN CHOOSE i \in 1..Len(s) : P(s[i]) /\ \A j \in 1..(i - 1) : ~P(s[j])
  ELSE 0

\* Array.prototype.splice(i, 1)
RemoveAt(s, i) == [j \in 1..(Len(s) - 1) |-> IF j < i THEN s[j] ELSE s[j + 1]]

\* Array.prototype.sort with comparator (a, b) => b.createdAt - a.createdAt:
\* a stable sort, newest first.  Insert x behind every element that is not older.
RECURSIVE InsertByCreatedAt(_, _)
InsertByCreatedAt(sorted, x) ==
  IF sorted = << >> THEN << x >>
  ELSE IF Head(sorted).createdAt >= x.createdAt
       THEN << Head(sorted) >> \o InsertByCreatedAt(Tail(sorted), x)
       ELSE << x >> \o sorted

\* The copy of the collection left in its stored order.
SortNewestFirst_AsStored(s) == s

RECURSIVE SortNewestFirst(_)
SortNewestFirst(s) ==
  IF s = << >> THEN << >>
  ELSE InsertByCreatedAt(SortNewestFirst(SubSeq(s, 1, Len(s) - 1)), s[Len(s)])

\* ------------------------------------------------- memoryStore.js: InMemoryTask
\* The matcher with the comparison left out: findIndex stops at the first task.
MatchesId_First(task, id) == TRUE

\* task => task._id === id || task.id === id
MatchesId(task, id) == task._id = id \/ task.id = id

\* find with the `filter.completed !== undefined` test left out: a filter
\* without `completed` keeps only the tasks whose completed is undefined.
InMemoryTask_find_NoUndefinedTest(ts, filter) ==
  LET byCompleted(t) == Has(filter, "completed") /\ t.completed = filter.completed
      byPriority(t)  == ~Has(filter, "priority") \/ t.priority = filter.priority
      byCategory(t)  == ~Has(filter, "category") \/ t.category = filter.category
      byText(t)      == ~Has(filter, "search")
                        \/ Includes(t.text, filter.search)
                        \/ Includes(t.category, filter.search)
      keep(t) == byCompleted(t) /\ byPriority(t) /\ byCategory(t) /\ byText(t)
  IN  SortNewestFirst(SelectSeq(ts, keep))

\* InMemoryTask.find(filter)
InMemoryTask_find(ts, filter) ==
  LET byCompleted(t) == ~Has(filter, "completed") \/ t.completed = filter.completed
      byPriority(t)  == ~Has(filter, "priority") \/ t.priority = filter.priority
      byCategory(t)  == ~Has(filter, "category") \/ t.category = filter.category
      byText(t)      == ~Has(filter, "search")
                        \/ Includes(t.text, filter.search)
                        \/ Includes(t.category, filter.search)
      keep(t) == byCompleted(t) /\ byPriority(t) /\ byCategory(t) /\ byText(t)
  IN  SortNewestFirst(SelectSeq(ts, keep))

\* InMemoryTask.findById(id)
InMemoryTask_findById(ts, id) ==
  LET m(t) == MatchesId(t, id)
      i == FindIndex(ts, m)
  IN  IF i = 0 THEN Null ELSE ts[i]

\* InMemoryTask.create(taskData); t1, t2, t3 are its three clock reads.
InMemoryTask_create(ts, nid, taskData, t1, t2, t3) ==
  LET newTask == [ _id          |-> nid,
                   id           |-> nid,
                   text         |-> taskData.text,
                   completed    |-> OrDefault(taskData, "completed", FALSE),
                   priority     |-> OrDefault(taskData, "priority", "medium"),
                   category     |-> OrDefault(taskData, "category", "general"),
                   dueDate      |-> OrDefault(taskData, "dueDate", NoDate),
                   tags         |-> OrDefault(taskData, "tags", << >>),
                   metadata     |-> OrDefault(taskData, "metadata", EmptyObject),
                   createdAt    |-> t1,
                   updatedAt    |-> t2,
                   lastModified |-> t3,
                   origId       |-> nid ]
  IN  [ tasks |-> << newTask >> \o ts, nextId |-> nid + 1, result |-> newTask ]

\* findByIdAndUpdate with the spread of updateData moved behind the two
\* timestamps, so that the patch's own timestamps win.
InMemoryTask_findByIdAndUpdate_PatchLast(ts, id, updateData, t1, t2) ==
  LET m(t) == MatchesId(t, id)
      taskIndex == FindIndex(ts, m)
      updatedTask ==
        Spread(Spread(ts[taskIndex], [updatedAt |-> t1, lastModified |-> t2]),
               updateData)
  IN  IF taskIndex = 0
      THEN [ tasks |-> ts, result |-> Null ]
      ELSE [ tasks |-> [ts EXCEPT ![taskIndex] = updatedTask], result |-> updatedTask ]

\* InMemoryTask.findByIdAndUpdate(id, updateData, {new: true}); t1, t2 are its
\* two clock reads.
InMemoryTask_findByIdAndUpdate(ts, id, updateData, t1, t2) ==
  LET m(t) == MatchesId(t, id)
      taskIndex == FindIndex(ts, m)
      updatedTask ==
        Spread(Spread(ts[taskIndex], updateData),
               [updatedAt |-> t1, lastModified |-> t2])
  IN  IF taskIndex = 0
      THEN [ tasks |-> ts, result |-> Null ]
      ELSE [ tasks |-> [ts EXCEPT ![taskIndex] = updatedTask], result |-> updatedTask ]

\* InMemoryTask.findByIdAndDelete(id)
InMemoryTask_findByIdAndDelete(ts, id) ==
  LET m(t) == MatchesId(t, id)
      taskIndex == FindIndex(ts, m)
  IN  IF taskIndex = 0
      THEN [ tasks |-> ts, result |-> Null ]
      ELSE [ tasks |-> RemoveAt(ts, taskIndex), result |-> ts[taskIndex] ]

\* InMemoryTask.countDocuments(filter)
InMemoryTask_countDocuments(ts, filter) == Len(InMemoryTask_find(ts, filter))

\* The number of elements of s that satisfy P.
Count(s, P(_)) == Len(SelectSeq(s, P))

\* InMemoryTask.aggregate(pipeline): the stats object, whatever the pipeline.
InMemoryTask_aggregate(ts) ==
  LET done(t) == t.completed = TRUE
      open(t) == t.completed # TRUE
      categories == { ts[i].category : i \in 1..Len(ts) }
  IN  [ total      |-> Len(ts),
        completed  |-> Count(ts, done),
        active     |-> Count(ts, open),
        byPriority |-> [ p \in { "low", "medium", "high", "urgent" } |->
                           Count(ts, LAMBDA t : t.priority = p) ],
        byCategory |-> [ c \in categories |-> Count(ts, LAMBDA t : t.category = c) ] ]

\* ------------------------------------------------ models/Task.js: the Task model
\* The paths of taskSchema; with the default strict mode Mongoose drops every
\* other key of a document or an update (id is a virtual, updatedAt is renamed
\* to lastModified by the timestamps option).
SchemaPaths ==
  { "text", "completed", "priority", "category", "dueDate", "tags",
    "createdAt", "lastModified", "userId", "metadata" }

\* Paths declared immutable: true; an update of a stored document skips them.
ImmutablePaths == { "createdAt" }

\* The keys of an update that reach the stored document.
CastUpdate(update) ==
  Without(update, (DOMAIN update \ SchemaPaths) \cup ImmutablePaths)

\* The $text index over text, category and tags, for the terms of the inputs:
\* a term matches whole words.
TextMatches(doc, term) ==
  LET word(s) == \/ term = "bug"  /\ s = "Fix bug"
                 \/ term = "milk" /\ s = "buy milk"
                 \/ term = "work" /\ s = "work"
  IN  word(doc.text) \/ word(doc.category)

\* The setters of the schema (trim on text, lowercase on priority), applied
\* when a document or an update is cast.
ApplySetters(data) ==
  [k \in DOMAIN data |->
     IF k = "text" THEN Trim(data[k])
     ELSE IF k = "priority" THEN Lower(data[k])
     ELSE data[k]]

MinLength == 3
MaxLength == 255
MaxTags == 10

\* enum of taskSchema.priority
Priorities == { "low", "medium", "high" }

\* The paths of data whose validators fail (the keys of ValidationError.errors:
\* validation visits every path and reports one error for each failing one);
\* t is the clock read of the dueDate validator.
InvalidPaths(data, t) ==
  { k \in DOMAIN data :
      \/ k = "text" /\ ~( /\ data.text # ""
                          /\ Len(data.text) >= MinLength
                          /\ Len(data.text) <= MaxLength )
      \/ k = "priority" /\ data.priority \notin Priorities
      \/ k = "dueDate" /\ ~(data.dueDate = NoDate \/ data.dueDate >= StartOfDay(t)) }

\* The validators of the schema on the paths data carries.
PathsValid(data, t) == InvalidPaths(data, t) = {}

\* new Task(data).save() / Task.create(data): t1 is the read of the Date.now
\* defaults at construction and of the validators, t2 the read of the
\* pre('save') hook, which runs after validation, collapses the whitespace
\* of text and refuses more than MaxTags tags with a plain Error.
Task_create(ds, seq, data, t1, t2) ==
  LET d == ApplySetters(data)
      doc == [ _id          |-> ObjectId(seq + 1),
               text         |-> Collapse(d.text),
               completed    |-> OrDefault(d, "completed", FALSE),
               priority     |-> OrDefault(d, "priority", "medium"),
               category     |-> OrDefault(d, "category", "general"),
               dueDate      |-> OrDefault(d, "dueDate", NoDate),
               tags         |-> OrDefault(d, "tags", << >>),
               metadata     |-> OrDefault(d, "metadata", [difficulty |-> "medium"]),
               createdAt    |-> OrDefault(d, "createdAt", t1),
               lastModified |-> t2,
               origId       |-> ObjectId(seq + 1) ]
      required == IF Has(d, "text") THEN {} ELSE { "text" }
      errors == required \cup InvalidPaths(d, t1)
  IN  IF errors # {}
      THEN [ error |-> "ValidationError", errors |-> errors, docs |-> ds, seq |-> seq,
             result |-> Null ]
      ELSE IF Len(doc.tags) > MaxTags
      THEN [ error |-> "Error", errors |-> {}, docs |-> ds, seq |-> seq, result |-> Null ]
      ELSE [ error |-> "none", errors |-> {}, docs |-> ds \o << doc >>, seq |-> seq + 1,
             result |-> doc ]

\* Task.findById(id): a string that is no ObjectId fails the cast of _id.
Task_findById(ds, id) ==
  LET m(d) == d._id = id
      i == FindIndex(ds, m)
  IN  IF ~isValid(id) THEN [ error |-> "CastError", result |-> Null ]
      ELSE [ error |-> "none", result |-> IF i = 0 THEN Null ELSE ds[i] ]

\* Task.findByIdAndUpdate(id, update, {new: true, runValidators}); t is the
\* clock read of the validators and of the pre('findOneAndUpdate') hook, which
\* sets lastModified after the update's own keys.  The tags limit of
\* pre('save') is not part of an update.
Task_findByIdAndUpdate(ds, id, update, runValidators, t) ==
  LET m(d) == d._id = id
      i == FindIndex(ds, m)
      u == ApplySetters(CastUpdate(update))
      updated == Spread(Spread(ds[i], u), [lastModified |-> t])
  IN  IF ~isValid(id) \/ (Has(update, "_id") /\ ~isValid(update._id))
      THEN [ error |-> "CastError", docs |-> ds, result |-> Null ]
      ELSE IF runValidators /\ ~PathsValid(u, t)
      THEN [ error |-> "ValidationError", errors |-> InvalidPaths(u, t), docs |-> ds,
             result |-> Null ]
      ELSE IF i = 0
      THEN [ error |-> "none", docs |-> ds, result |-> Null ]
      ELSE IF Has(update, "_id") /\ update._id # ds[i]._id
      THEN [ error |-> "MongoServerError", docs |-> ds, result |-> Null ]
      ELSE [ error |-> "none", docs |-> [ds EXCEPT ![i] = updated], result |-> updated ]

\* Task.findByIdAndDelete(id)
Task_findByIdAndDelete(ds, id) ==
  LET m(d) == d._id = id
      i == FindIndex(ds, m)
  IN  IF ~isValid(id) THEN [ error |-> "CastError", docs |-> ds, result |-> Null ]
      ELSE IF i = 0 THEN [ error |-> "none", docs |-> ds, result |-> Null ]
      ELSE [ error |-> "none", docs |-> RemoveAt(ds, i), result |-> ds[i] ]

\* Task.updateMany({_id: {$in: ids}}, update, {runValidators: true}); t is
\* the clock read of the validators and of the pre('updateMany') hook.
Task_updateMany(ds, ids, update, t) ==
  LET hit(d) == d._id \in ids
      u == ApplySetters(CastUpdate(update))
      updated(d) == Spread(Spread(d, u), [lastModified |-> t])
      clash(d) == hit(d) /\ update._id # d._id
  IN  IF Has(update, "_id") /\ ~isValid(update._id)
      THEN [ error |-> "CastError", docs |-> ds, matchedCount |-> 0 ]
      ELSE IF ~PathsValid(u, t)
      THEN [ error |-> "ValidationError", errors |-> InvalidPaths(u, t), docs |-> ds,
             matchedCount |-> 0 ]
      ELSE IF Has(update, "_id") /\ SelectSeq(ds, clash) # << >>
      THEN [ error |-> "MongoServerError", docs |-> ds, matchedCount |-> 0 ]
      ELSE [ error |-> "none",
             docs |-> [i \in 1..Len(ds) |-> IF hit(ds[i]) THEN updated(ds[i]) ELSE ds[i]],
             matchedCount |-> Len(SelectSeq(ds, hit)) ]

\* .sort({ dueDate: 1 }): earliest dueDate first, equal dates in stored order.
RECURSIVE InsertByDueDate(_, _)
InsertByDueDate(sorted, x) ==
  IF sorted = << >> THEN << x >>
  ELSE IF Head(sorted).dueDate <= x.dueDate
       THEN << Head(sorted) >> \o InsertByDueDate(Tail(sorted), x)
       ELSE << x >> \o sorted

RECURSIVE SortByDueDate(_)
SortByDueDate(s) ==
  IF s = << >> THEN << >>
  ELSE InsertByDueDate(SortByDueDate(SubSeq(s, 1, Len(s) - 1)), s[Len(s)])

\* findOverdue without the completed: false condition.
Task_findOverdue_AnyCompletion(ds, t) ==
  LET overdue(d) == d.dueDate # NoDate /\ d.dueDate < t
  IN  SortByDueDate(SelectSeq(ds, overdue))

\* Task.findOverdue(): a null dueDate is not $lt any date.
Task_findOverdue(ds, t) ==
  LET overdue(d) == d.dueDate # NoDate /\ d.dueDate < t /\ d.completed = FALSE
  IN  SortByDueDate(SelectSeq(ds, overdue))

\* Task.find(filter), in the collection's natural order; the dueDate of a
\* filter is the bound of { $lt: bound }, which a null dueDate does not match.
Task_find(ds, filter) ==
  LET keep(d) ==
        /\ ~Has(filter, "completed") \/ d.completed = filter.completed
        /\ ~Has(filter, "priority") \/ d.priority = filter.priority
        /\ ~Has(filter, "category") \/ Includes(d.category, filter.category)
        /\ ~Has(filter, "search") \/ TextMatches(d, filter.search)
        /\ ~Has(filter, "dueDate") \/ (d.dueDate # NoDate /\ d.dueDate < filter.dueDate)
  IN  SelectSeq(ds, keep)

\* Task.countDocuments(filter)
Task_countDocuments(ds, filter) == Len(Task_find(ds, filter))

\* $lt of the aggregation pipeline on a date field: a missing or null value
\* sorts before every date.
AggLt(d, t) == d = NoDate \/ d < t

\* Task.getStatistics(); t is the clock read of the pipeline.  completionRate
\* is the quotient num / den.
Task_getStatistics(ds, t) ==
  LET done(d) == d.completed = TRUE
      open(d) == d.completed # TRUE
      overdue(d) == AggLt(d.dueDate, t) /\ d.completed = FALSE
      total == Len(ds)
  IN  IF total = 0
      THEN [ total |-> 0, completed |-> 0, active |-> 0, overdue |-> 0,
             completionRate |-> [ num |-> 0, den |-> 1 ] ]
      ELSE [ total     |-> total,
             completed |-> Count(ds, done),
             active    |-> Count(ds, open),
             overdue   |-> Count(ds, overdue),
             completionRate |-> [ num |-> Count(ds, done) * 100, den |-> total ] ]

\* The $group pipeline of the simplified getTaskStatistics.
Task_aggregate(ds) ==
  LET done(d) == d.completed = TRUE
      open(d) == d.completed = FALSE
  IN  [ total     |-> Len(ds),
        completed |-> Count(ds, done),
        active    |-> Count(ds, open) ]

\* The { $group: { _id: '$field', count } } pipelines of getTaskStatistics.
Distribution(ds, field) ==
  [ v \in { ds[i][field] : i \in 1..Len(ds) } |-> Count(ds, LAMBDA d : d[field] = v) ]

\* =================================================================== state
VARIABLES
  tasks,        \* memoryStore.js `tasks`: the in-memory collection, newest first
  nextId,       \* memoryStore.js `nextId`
  docs,         \* the documents of the Task collection, in insertion order
  seq,          \* ObjectIds generated so far
  readyState,   \* mongoose.connection.readyState: 0 disconnected, 1 connected
  now,          \* the wall clock
  last,         \* the request handled by the last step and its response
  env,          \* process.env.NODE_ENV
  inflight,     \* the request of the simplified controller awaiting its call on Task
  created       \* tasks returned by create whose id no later update or delete named

vars == << tasks, nextId, docs, seq, readyState, now, last, env, inflight, created >>

store == << tasks, nextId, docs, seq >>

\* A request and its response.  backend is the model the handler executed its
\* store call on ("none" when it answered before any store call); conn is
\* isMongoAvailable() when the request arrived; prev is the stored task the
\* request's id named before the call, data the body's data; changed tells
\* whether a store differs after the request.  The id and the payload (of a
\* write) or the query (of a list or a search) are kept for the requests that
\* succeeded.
Response(ctrl, op, conn, backend, status, id, patch, prev, data, changed) ==
  LET ok == status < 400
      write == op \in {"create", "update", "bulk", "list", "search"}
  IN  [ ctrl |-> ctrl, op |-> op, conn |-> conn, backend |-> backend, status |-> status,
        id |-> IF ok THEN id ELSE 0,
        patch |-> IF ok /\ write THEN patch ELSE Null,
        prev |-> prev, data |-> data, changed |-> changed ]

NoRequest == Response("none", "none", FALSE, "none", 0, 0, Null, Null, Null, FALSE)

\* No request is awaiting.
Idle == [ handler |-> "none" ]

Init ==
  /\ tasks = << >>
  /\ nextId = 1
  /\ docs = << >>
  /\ seq = 0
  /\ readyState = 0
  /\ now = 0
  /\ last = NoRequest
  /\ env = "production"
  /\ inflight = Idle
  /\ created = {}

\* A later clock read: the clock may have advanced by a tick since the read t.
LaterReads(t) == { u \in t..MaxTime : u <= t + 1 }

\* The model stops creating after MaxTasks tasks.
MayCreate == (nextId - 1) + seq < MaxTasks

\* isMongoAvailable()
isMongoAvailable == readyState = 1

\* getTaskModel with the test inverted.
getTaskModel_Inverted == IF isMongoAvailable THEN "memory" ELSE "mongodb"

\* getTaskModel(): the model the connection state selects.
getTaskModel == IF isMongoAvailable THEN "mongodb" ELSE "memory"

\* The id of a task as its store assigned it.
IdOf(backend, task) == IF backend = "memory" THEN task.id ELSE task._id

\* created, after a request that names id in an update or a delete.
Forget(id) == { e \in created : IdOf(e.backend, e.task) # id }

\* ------------------------------------------------------------ environment
\* The clock advances.
Tick ==
  /\ now < MaxTime
  /\ now' = now + 1
  /\ last' = NoRequest
  /\ UNCHANGED << store, readyState, env, inflight, created >>

\* mongoose.connection 'connected' / 'reconnected': the handlers only log.
Connect ==
  /\ readyState = 0
  /\ readyState' = 1
  /\ last' = NoRequest
  /\ UNCHANGED << store, now, env, inflight, created >>

\* mongoose.connection 'disconnected': the handler only logs.
Disconnect ==
  /\ readyState = 1
  /\ readyState' = 0
  /\ last' = NoRequest
  /\ UNCHANGED << store, now, env, inflight, created >>

\* clearTasks()
clearTasks ==
  /\ tasks' = << >>
  /\ nextId' = 1
  /\ created' = { e \in created : e.backend # "memory" }
  /\ last' = Response("store", "clear", isMongoAvailable, "memory", 0, 0, Null, Null, Null,
                   tasks # << >> \/ nextId # 1)
  /\ UNCHANGED << docs, seq, readyState, env, inflight, now >>

\* The sample tasks of initializeSampleData, in their order.
SampleTasks ==
  << [ text |-> "Complete TaskFlow project deployment", priority |-> "high",
       category |-> "work", tags |-> << "project", "deployment" >> ],
     [ text |-> "Review MongoDB integration", priority |-> "medium",
       category |-> "development", tags |-> << "database", "review" >> ],
     [ text |-> "Test frontend-backend integration", priority |-> "high",
       category |-> "testing", tags |-> << "integration", "testing" >> ],
     [ text |-> "Update documentation", priority |-> "low",
       category |-> "documentation", tags |-> << "docs", "readme" >> ],
     [ text |-> "Deploy to production", priority |-> "urgent",
       category |-> "deployment", tags |-> << "production", "deployment" >> ] >>

\* Three successive clock reads from the read t.
ThreeReads(t) ==
  { r \in (t..MaxTime) \X (t..MaxTime) \X (t..MaxTime) :
      r[1] \in LaterReads(t) /\ r[2] \in LaterReads(r[1]) /\ r[3] \in LaterReads(r[2]) }

\* sampleTasks.forEach(taskData => InMemoryTask.create(taskData)) from the
\* clock read t: every outcome [tasks, nextId, now] the clock allows.
RECURSIVE SeedResults(_, _, _, _)
SeedResults(ts, nid, samples, t) ==
  IF samples = << >>
  THEN { [ tasks |-> ts, nextId |-> nid, now |-> t ] }
  ELSE UNION { SeedResults(InMemoryTask_create(ts, nid, Head(samples), r[1], r[2], r[3]).tasks,
                           nid + 1, Tail(samples), r[3]) : r \in ThreeReads(t) }

\* initializeSampleData()
initializeSampleData ==
  /\ Len(tasks) = 0
  /\ \E r \in SeedResults(tasks, nextId, SampleTasks, now) :
       /\ tasks' = r.tasks
       /\ nextId' = r.nextId
       /\ now' = r.now
  /\ last' = Response("store", "seed", isMongoAvailable, "memory", 0, 0, Null, Null, Null,
                      TRUE)
  /\ UNCHANGED << docs, seq, readyState, env, inflight, created >>

\* ------------------------------------------------ the methods of a Task document
\* doc.save() of the loaded document ds[i], changed to doc: pre('save') reads
\* the clock (t) for lastModified, collapses the whitespace of text and
\* refuses more than MaxTags tags.
Task_save(ds, i, doc, t) ==
  IF Len(doc.tags) > MaxTags
  THEN [ error |-> "Error", docs |-> ds ]
  ELSE [ error |-> "none",
         docs |-> [ds EXCEPT ![i] = Spread(doc, [lastModified |-> t,
                                                 text |-> Collapse(doc.text)])] ]

\* The step of a document method followed by save() on the document id names.
MethodStep(op, id, doc, patch) ==
  \E t \in LaterReads(now) :
    LET m(d) == d._id = id
        i == FindIndex(docs, m)
        r == Task_save(docs, i, doc, t)
    IN  /\ isMongoAvailable
        /\ i # 0
        /\ docs' = r.docs
        /\ now' = t
        /\ last' = Response("document", op, TRUE, "mongodb",
                            IF r.error = "none" THEN 200 ELSE 500,
                            id, patch, docs[i], IF r.error = "none" THEN r.docs[i] ELSE Null,
                            r.docs # docs)
        /\ created' = Forget(id)
        /\ UNCHANGED << tasks, nextId, seq, readyState, env, inflight >>

\* The stored document id names, or Null.
Loaded(id) == Task_findById(docs, id).result

\* task.markComplete()
markComplete(id) ==
  /\ Loaded(id) # Null
  /\ MethodStep("update", id, Spread(Loaded(id), [completed |-> TRUE]), [completed |-> TRUE])

\* task.markIncomplete()
markIncomplete(id) ==
  /\ Loaded(id) # Null
  /\ MethodStep("update", id, Spread(Loaded(id), [completed |-> FALSE]), [completed |-> FALSE])

\* task.addTag(tag).save()
addTag(id, tag) ==
  /\ Loaded(id) # Null
  /\ LET doc == Loaded(id)
         has(x) == x = Lower(tag)
         tags == IF SelectSeq(doc.tags, has) # << >> THEN doc.tags
                 ELSE Append(doc.tags, Lower(tag))
     IN  MethodStep("update", id, Spread(doc, [tags |-> tags]), [tags |-> tags])

\* --------------------------------------------------------------- error bodies
\* error.message of the errors the store calls throw.
ErrorMessage(error) ==
  IF error = "MongooseError"
  THEN "Cannot call `tasks.find()` before initial connection is complete if `bufferCommands = false`"
  ELSE IF error = "CastError" THEN "Cast to ObjectId failed"
  ELSE IF error = "ValidationError" THEN "Task validation failed"
  ELSE IF error = "MongoServerError"
  THEN "Performing an update on the path '_id' would modify the immutable field '_id'"
  ELSE "Cannot have more than 10 tags per task"

\* The details of a 500 response without the test of NODE_ENV.
Details_Always(error) == ErrorMessage(error)

\* The details of a 500 response: the message in development mode only.
Details(error) ==
  IF env = "development" THEN ErrorMessage(error) ELSE "Internal server error"

\* handleError: the body of the 500 response of the simplified controller.
handleError(error) == [ details |-> Details(error) ]

\* The outcome of a call on Task without a connection: bufferCommands is off.
NoConnection == [ error |-> "MongooseError" ]

\* handleDBError: the body of the response to the failed store call r.
DBErrorBody(r) ==
  IF r.error = "ValidationError" THEN [ details |-> r.errors ]
  ELSE IF r.error = "CastError"
  THEN [ details |-> "The provided ID is not a valid MongoDB ObjectId" ]
  ELSE [ details |-> Details(r.error) ]

\* -------------------------------------------------- the simplified controller
\* The fields createTask hands to TaskModel.create.
SimpleCreateData(taskData) ==
  [ text      |-> Trim(taskData.text),
    completed |-> OrDefault(taskData, "completed", FALSE),
    priority  |-> OrDefault(taskData, "priority", "medium"),
    category  |-> OrDefault(taskData, "category", "general"),
    tags      |-> OrDefault(taskData, "tags", << >>),
    dueDate   |-> OrDefault(taskData, "dueDate", NoDate) ]

\* createTask: POST /tasks
Simple_createTask(taskData) ==
  LET conn == isMongoAvailable
      TaskModel == getTaskModel
  IN  IF ~Has(taskData, "text") \/ Trim(taskData.text) = ""
      THEN /\ last' = Response("simple", "create", conn, "none", 400, 0, taskData,
                               Null, Null, FALSE)
           /\ UNCHANGED << store, readyState, env, inflight, now, created >>
      ELSE IF TaskModel = "memory"
      THEN \E t2 \in LaterReads(now) : \E t3 \in LaterReads(t2) :
             LET r == InMemoryTask_create(tasks, nextId, SimpleCreateData(taskData),
                                          now, t2, t3)
             IN  /\ tasks' = r.tasks
                 /\ nextId' = r.nextId
                 /\ now' = t3
                 /\ created' = created \cup { [backend |-> "memory", task |-> r.result] }
                 /\ last' = Response("simple", "create", conn, "memory", 201,
                                     r.result.id, taskData, Null, r.result, TRUE)
                 /\ UNCHANGED << docs, seq, readyState, env, inflight >>
      ELSE \E t2 \in LaterReads(now) :
             LET r == Task_create(docs, seq, SimpleCreateData(taskData), now, t2)
             IN  IF r.error # "none"
                 THEN /\ last' = Response("simple", "create", conn, "mongodb", 500, 0,
                                          taskData, Null, handleError(r.error), FALSE)
                      /\ UNCHANGED << store, readyState, env, inflight, now, created >>
                 ELSE /\ docs' = r.docs
                      /\ seq' = r.seq
                      /\ now' = t2
                      /\ created' = created \cup { [backend |-> "mongodb", task |-> r.result] }
                      /\ last' = Response("simple", "create", conn, "mongodb", 201,
                                          r.result._id, taskData, Null, r.result, TRUE)
                      /\ UNCHANGED << tasks, nextId, readyState, env, inflight >>

\* getTaskById: GET /tasks/:id
Simple_getTaskById(id) ==
  /\ LET conn == isMongoAvailable
         TaskModel == getTaskModel
     IN  IF TaskModel = "memory"
         THEN LET task == InMemoryTask_findById(tasks, id)
              IN  last' = Response("simple", "get", conn, "memory",
                                   IF task = Null THEN 404 ELSE 200,
                                   id, Null, task, task, FALSE)
         ELSE LET r == Task_findById(docs, id)
              IN  last' = Response("simple", "get", conn, "mongodb",
                                   IF r.error # "none" THEN 500
                                   ELSE IF r.result = Null THEN 404 ELSE 200,
                                   id, Null, r.result,
                                   IF r.error # "none" THEN handleError(r.error)
                                   ELSE r.result,
                                   FALSE)
  /\ UNCHANGED << store, readyState, env, inflight, now, created >>

\* updateTask: PUT /tasks/:id
Simple_updateTask(id, updateData) ==
  /\ LET conn == isMongoAvailable
         TaskModel == getTaskModel
         update == Spread(updateData, [updatedAt |-> now])
     IN  IF TaskModel = "memory"
         THEN \E t1 \in LaterReads(now) : \E t2 \in LaterReads(t1) :
                LET r == InMemoryTask_findByIdAndUpdate(tasks, id, update, t1, t2)
                IN  /\ tasks' = r.tasks
                    /\ now' = t2
                    /\ last' = Response("simple", "update", conn, "memory",
                                        IF r.result = Null THEN 404 ELSE 200,
                                        id, updateData, InMemoryTask_findById(tasks, id),
                                        r.result, r.tasks # tasks)
                    /\ UNCHANGED << nextId, docs, seq, readyState, env, inflight >>
         ELSE \E t \in LaterReads(now) :
                LET r == Task_findByIdAndUpdate(docs, id, update, FALSE, t)
                IN  /\ docs' = r.docs
                    /\ now' = t
                    /\ last' = Response("simple", "update", conn, "mongodb",
                                        IF r.error # "none" THEN 500
                                        ELSE IF r.result = Null THEN 404 ELSE 200,
                                        id, updateData, Task_findById(docs, id).result,
                                        IF r.error # "none" THEN handleError(r.error)
                                        ELSE r.result,
                                        r.docs # docs)
                    /\ UNCHANGED << tasks, nextId, seq, readyState, env, inflight >>
  /\ created' = Forget(id)

\* deleteTask: DELETE /tasks/:id
Simple_deleteTask(id) ==
  /\ LET conn == isMongoAvailable
         TaskModel == getTaskModel
     IN  IF TaskModel = "memory"
         THEN LET r == InMemoryTask_findByIdAndDelete(tasks, id)
              IN  /\ tasks' = r.tasks
                  /\ last' = Response("simple", "delete", conn, "memory",
                                      IF r.result = Null THEN 404 ELSE 200,
                                      id, Null, r.result, Null, r.tasks # tasks)
                  /\ UNCHANGED << nextId, docs, seq >>
         ELSE LET r == Task_findByIdAndDelete(docs, id)
              IN  /\ docs' = r.docs
                  /\ last' = Response("simple", "delete", conn, "mongodb",
                                      IF r.error # "none" THEN 500
                                      ELSE IF r.result = Null THEN 404 ELSE 200,
                                      id, Null, r.result,
                                      IF r.error # "none" THEN handleError(r.error)
                                      ELSE Null,
                                      r.docs # docs)
                  /\ UNCHANGED << tasks, nextId, seq >>
  /\ created' = Forget(id)
  /\ UNCHANGED << readyState, env, inflight, now >>

\* The query parameters of the list endpoints, as the filter they build.
ListQueries ==
  { EmptyObject, [completed |-> TRUE], [priority |-> "high"], [search |-> "bug"] }

\* The q of the search endpoints.
SearchQueries == { "b", "bug" }

SimpleDefaultLimit == 50
SimpleSearchLimit == 10

\* Array.prototype.slice(skip, skip + limit)
Slice(s, skip, limit) ==
  SubSeq(s, skip + 1, IF skip + limit < Len(s) THEN skip + limit ELSE Len(s))

\* The keys of req.query that page the answer.
PagingKeys == { "page", "limit" }

\* The filter getAllTasks builds from req.query: completed, priority in lower
\* case and, for the database only, the search term; other keys are not read.
SimpleFilter(q, conn) ==
  LET f == Only(q, IF conn THEN { "completed", "priority", "search" }
                   ELSE { "completed", "priority" })
  IN  [k \in DOMAIN f |-> IF k = "priority" THEN Lower(f[k]) ELSE f[k]]

\* The body of getAllTasks for the query q with the default limit dflt: the
\* model is selected once, the filter is built and, on the in-memory model
\* only, the search term is applied and the page is cut afterwards;
\* totalItems is the length of what is returned.
SimpleList(op, q, dflt) ==
  LET conn == isMongoAvailable
      TaskModel == getTaskModel
      page == OrDefault(q, "page", 1)
      limit == OrDefault(q, "limit", dflt)
      filter == SimpleFilter(q, conn)
      bySearch(t) == ~Has(q, "search")
                     \/ Includes(t.text, q.search) \/ Includes(t.category, q.search)
      found == InMemoryTask_find(tasks, filter)
      page1 == Slice(SelectSeq(found, bySearch), (page - 1) * limit, limit)
      items == IF TaskModel = "memory" THEN page1 ELSE Task_find(docs, filter)
  IN  /\ last' = Response("simple", op, conn, TaskModel, 200, 0, q, Null,
                          [ items |-> items,
                            pagination |-> [ currentPage  |-> page,
                                             itemsPerPage |-> limit,
                                             totalItems   |-> Len(items) ] ],
                          FALSE)
      /\ UNCHANGED << store, readyState, env, inflight, now, created >>

\* getAllTasks: GET /tasks
Simple_getAllTasks(q) == SimpleList("list", q, SimpleDefaultLimit)

\* getAllTasks on the database, up to its await of TaskModel.find: getTaskModel
\* returned Task, the filter carries the search term, the query is sent.
Simple_getAllTasks_call(q) ==
  /\ isMongoAvailable
  /\ inflight = Idle
  /\ inflight' = [ handler |-> "getAllTasks", query |-> q,
                   result |-> Task_find(docs, SimpleFilter(q, TRUE)) ]
  /\ last' = NoRequest
  /\ UNCHANGED << store, readyState, now, env, created >>

\* getAllTasks after the await: isMongoAvailable() is read again for the search
\* filter, for the page and for storage.
Simple_getAllTasks_resume ==
  /\ inflight.handler = "getAllTasks"
  /\ LET q == inflight.query
         conn == isMongoAvailable
         page == OrDefault(q, "page", 1)
         limit == OrDefault(q, "limit", SimpleDefaultLimit)
         bySearch(t) == Includes(t.text, q.search) \/ Includes(t.category, q.search)
         searched == IF Has(q, "search") /\ ~conn
                     THEN SelectSeq(inflight.result, bySearch)
                     ELSE inflight.result
         items == IF ~conn THEN Slice(searched, (page - 1) * limit, limit) ELSE searched
     IN  last' = Response("simple", "list", TRUE, "mongodb", 200, 0, q, Null,
                          [ items |-> items,
                            storage |-> IF conn THEN "mongodb" ELSE "memory",
                            pagination |-> [ currentPage  |-> page,
                                             itemsPerPage |-> limit,
                                             totalItems   |-> Len(items) ] ],
                          FALSE)
  /\ inflight' = Idle
  /\ UNCHANGED << store, readyState, now, env, created >>

\* createTask on the database, up to its await of TaskModel.create.
Simple_createTask_call(taskData) ==
  /\ isMongoAvailable
  /\ inflight = Idle
  /\ Has(taskData, "text") /\ Trim(taskData.text) # ""
  /\ \E t2 \in LaterReads(now) :
       LET r == Task_create(docs, seq, SimpleCreateData(taskData), now, t2)
       IN  /\ r.error = "none"
           /\ docs' = r.docs
           /\ seq' = r.seq
           /\ now' = t2
           /\ created' = created \cup { [backend |-> "mongodb", task |-> r.result] }
           /\ inflight' = [ handler |-> "createTask", query |-> taskData,
                            result |-> r.result ]
  /\ last' = NoRequest
  /\ UNCHANGED << tasks, nextId, readyState, env >>

\* createTask after the await: isMongoAvailable() is read again for storage.
Simple_createTask_resume ==
  /\ inflight.handler = "createTask"
  /\ last' = Response("simple", "create", TRUE, "mongodb", 201, inflight.result._id,
                      inflight.query, Null,
                      [ task |-> inflight.result,
                        storage |-> IF isMongoAvailable THEN "mongodb" ELSE "memory" ],
                      TRUE)
  /\ inflight' = Idle
  /\ UNCHANGED << store, readyState, now, env, created >>

\* getTaskStatistics: GET /tasks/stats
Simple_getTaskStatistics ==
  /\ LET conn == isMongoAvailable
         TaskModel == getTaskModel
     IN  last' = Response("simple", "stats", conn, TaskModel, 200, 0, Null, Null,
                          IF conn THEN Task_aggregate(docs)
                          ELSE InMemoryTask_aggregate(tasks),
                          FALSE)
  /\ UNCHANGED << store, readyState, env, inflight, now, created >>

\* searchTasks: GET /tasks/search
Simple_searchTasks(q) ==
  IF Len(Trim(q)) < 2
  THEN /\ last' = Response("simple", "search", isMongoAvailable, "none", 400, 0,
                           [search |-> q], Null, Null, FALSE)
       /\ UNCHANGED << store, readyState, env, inflight, now, created >>
  ELSE SimpleList("search", [search |-> q], SimpleSearchLimit)

\* ----------------------------------------------------------- taskController.js
\* Every handler of this controller calls Task, whatever the connection state:
\* getTaskModel is defined but not used.  A call on Task without a connection
\* throws (bufferCommands is off) and handleDBError answers 500.
DefaultLimit == 10

\* handleDBError: the status of a thrown error.
handleDBError(error) ==
  IF error = "ValidationError" THEN 400
  ELSE IF error = "CastError" THEN 400
  ELSE 500

\* A request that read or failed without changing a store.
FullAnswer(op, backend, status, id, patch, prev, data) ==
  /\ last' = Response("full", op, isMongoAvailable, backend, status, id, patch, prev,
                      data, FALSE)
  /\ UNCHANGED << store, readyState, env, inflight, now >>

\* Math.ceil(n / d)
CeilDiv(n, d) == (n + d - 1) \div d

\* The filter getAllTasks builds from req.query; t is the clock read of the
\* includeOverdue bound.  includeOverdue is applied last and replaces completed.
FullFilter(q, t) ==
  LET f == Only(q, { "completed", "priority", "category", "search" })
      g == [k \in DOMAIN f |-> IF k = "priority" THEN Lower(f[k]) ELSE f[k]]
  IN  IF Has(q, "includeOverdue") /\ q.includeOverdue = TRUE
      THEN Spread(g, [dueDate |-> t, completed |-> FALSE])
      ELSE g

\* getAllTasks: GET /tasks, with the default sort (createdAt desc).
Full_getAllTasks(q) ==
  /\ LET page == OrDefault(q, "page", 1)
         limit == OrDefault(q, "limit", DefaultLimit)
         filter == FullFilter(q, now)
         skip == (page - 1) * limit
         totalCount == Task_countDocuments(docs, filter)
         totalPages == CeilDiv(totalCount, limit)
     IN  IF ~isMongoAvailable
         THEN FullAnswer("list", "mongodb", handleDBError("MongooseError"), 0, q, Null,
                         DBErrorBody(NoConnection))
         ELSE FullAnswer("list", "mongodb", 200, 0, q, Null,
                         [ items |-> Slice(SortNewestFirst(Task_find(docs, filter)),
                                           skip, limit),
                           pagination |-> [ currentPage  |-> page,
                                            totalPages   |-> totalPages,
                                            totalItems   |-> totalCount,
                                            itemsPerPage |-> limit,
                                            hasNextPage  |-> page < totalPages,
                                            hasPrevPage  |-> page > 1 ] ])
  /\ UNCHANGED created

\* getTaskById: GET /tasks/:id
Full_getTaskById(id) ==
  /\ IF ~isValid(id)
     THEN FullAnswer("get", "none", 400, id, Null, Null, Null)
     ELSE IF ~isMongoAvailable
     THEN FullAnswer("get", "mongodb", handleDBError("MongooseError"), id, Null, Null,
                     DBErrorBody(NoConnection))
     ELSE LET task == Task_findById(docs, id).result
          IN  FullAnswer("get", "mongodb", IF task = Null THEN 404 ELSE 200,
                         id, Null, task, task)
  /\ UNCHANGED created

\* createTask: POST /tasks
Full_createTask(taskData) ==
  IF ~isMongoAvailable
  THEN /\ FullAnswer("create", "mongodb", handleDBError("MongooseError"), 0, taskData,
                     Null, DBErrorBody(NoConnection))
       /\ UNCHANGED created
  ELSE \E t2 \in LaterReads(now) :
         LET r == Task_create(docs, seq, taskData, now, t2)
         IN  IF r.error # "none"
             THEN /\ FullAnswer("create", "mongodb", handleDBError(r.error), 0, taskData,
                                Null, DBErrorBody(r))
                  /\ UNCHANGED created
             ELSE /\ docs' = r.docs
                  /\ seq' = r.seq
                  /\ now' = t2
                  /\ created' = created \cup { [backend |-> "mongodb", task |-> r.result] }
                  /\ last' = Response("full", "create", TRUE, "mongodb", 201, r.result._id,
                                      taskData, Null, r.result, TRUE)
                  /\ UNCHANGED << tasks, nextId, readyState, env, inflight >>

\* updateTask: PUT /tasks/:id
Full_updateTask(id, updateData) ==
  /\ IF ~isValid(id)
     THEN FullAnswer("update", "none", 400, id, updateData, Null, Null)
     ELSE IF ~isMongoAvailable
     THEN FullAnswer("update", "mongodb", handleDBError("MongooseError"), id, updateData,
                     Null, DBErrorBody(NoConnection))
     ELSE \E t \in LaterReads(now) :
            LET r == Task_findByIdAndUpdate(docs, id,
                                            Spread(updateData, [lastModified |-> now]),
                                            TRUE, t)
            IN  /\ docs' = r.docs
                /\ now' = t
                /\ last' = Response("full", "update", TRUE, "mongodb",
                                    IF r.error # "none" THEN handleDBError(r.error)
                                    ELSE IF r.result = Null THEN 404 ELSE 200,
                                    id, updateData, Task_findById(docs, id).result,
                                    IF r.error # "none" THEN DBErrorBody(r) ELSE r.result,
                                    r.docs # docs)
                /\ UNCHANGED << tasks, nextId, seq, readyState, env, inflight >>
  /\ created' = Forget(id)

\* deleteTask: DELETE /tasks/:id
Full_deleteTask(id) ==
  /\ IF ~isValid(id)
     THEN FullAnswer("delete", "none", 400, id, Null, Null, Null)
     ELSE IF ~isMongoAvailable
     THEN FullAnswer("delete", "mongodb", handleDBError("MongooseError"), id, Null, Null,
                     DBErrorBody(NoConnection))
     ELSE LET r == Task_findByIdAndDelete(docs, id)
          IN  /\ docs' = r.docs
              /\ last' = Response("full", "delete", TRUE, "mongodb",
                                  IF r.result = Null THEN 404 ELSE 204,
                                  id, Null, r.result, Null, r.docs # docs)
              /\ UNCHANGED << tasks, nextId, seq, readyState, env, inflight, now >>
  /\ created' = Forget(id)

\* getTaskStatistics: GET /tasks/stats
Full_getTaskStatistics ==
  /\ IF ~isMongoAvailable
     THEN FullAnswer("stats", "mongodb", handleDBError("MongooseError"), 0, Null, Null,
                     DBErrorBody(NoConnection))
     ELSE FullAnswer("stats", "mongodb", 200, 0, Null, Null,
                     Spread(Task_getStatistics(docs, now),
                            [ priorityDistribution |-> Distribution(docs, "priority"),
                              categoryDistribution |-> Distribution(docs, "category"),
                              recentTasksCount |->
                                Count(docs, LAMBDA d : d.createdAt >= now - 7 * DayLength) ]))
  /\ UNCHANGED created

\* searchTasks: GET /tasks/search
Full_searchTasks(q) ==
  /\ IF Len(Trim(q)) < 2
     THEN FullAnswer("search", "none", 400, 0, [search |-> q], Null, Null)
     ELSE IF ~isMongoAvailable
     THEN FullAnswer("search", "mongodb", handleDBError("MongooseError"), 0,
                     [search |-> q], Null, DBErrorBody(NoConnection))
     ELSE FullAnswer("search", "mongodb", 200, 0, [search |-> q], Null,
                     [ items |-> Slice(Task_find(docs, [search |-> q]), 0, DefaultLimit) ])
  /\ UNCHANGED created

\* getOverdueTasks: GET /tasks/overdue
Full_getOverdueTasks ==
  /\ IF ~isMongoAvailable
     THEN FullAnswer("overdue", "mongodb", handleDBError("MongooseError"), 0, Null, Null,
                     DBErrorBody(NoConnection))
     ELSE FullAnswer("overdue", "mongodb", 200, 0, Null, Null, Task_findOverdue(docs, now))
  /\ UNCHANGED created

\* The taskIds of a bulk update.
BulkIds == { {}, { ObjectId(1) }, { ObjectId(1), ObjectId(2) }, { 1, ObjectId(1) } }

\* req.body of bulkUpdateTasks.
BulkBody(taskIds, updateData) == [ taskIds |-> taskIds, updateData |-> updateData ]

\* invalidIds of bulkUpdateTasks
InvalidIds(taskIds) == { id \in taskIds : ~isValid(id) }

\* bulkUpdateTasks with the malformed ids dropped from the request.
Full_bulkUpdateTasks_SkipInvalid(body) ==
  LET updateData == body.updateData
      validIds == IF Has(body, "taskIds") THEN body.taskIds \ InvalidIds(body.taskIds)
                  ELSE {}
  IN  /\ IF validIds = {}
         THEN FullAnswer("bulk", "none", 400, 0, updateData, Null, Null)
         ELSE IF ~isMongoAvailable
         THEN FullAnswer("bulk", "mongodb", handleDBError("MongooseError"), 0, updateData,
                         Null, DBErrorBody(NoConnection))
         ELSE \E t \in LaterReads(now) :
                LET r == Task_updateMany(docs, validIds,
                                         Spread(updateData, [lastModified |-> now]), t)
                IN  /\ docs' = r.docs
                    /\ now' = t
                    /\ last' = Response("full", "bulk", TRUE, "mongodb",
                                        IF r.error # "none" THEN handleDBError(r.error)
                                        ELSE 200,
                                        0, updateData, Null,
                                        IF r.error # "none" THEN DBErrorBody(r)
                                        ELSE [matchedCount |-> r.matchedCount],
                                        r.docs # docs)
                    /\ UNCHANGED << tasks, nextId, seq, readyState, env, inflight >>
      /\ created' = { e \in created : IdOf(e.backend, e.task) \notin validIds }

\* bulkUpdateTasks: PATCH /tasks/bulk.  The answer to malformed ids lists them.
Full_bulkUpdateTasks(body) ==
  LET updateData == body.updateData
      taskIds == IF Has(body, "taskIds") THEN body.taskIds ELSE {}
  IN  /\ IF ~Has(body, "taskIds") \/ taskIds = {}
         THEN FullAnswer("bulk", "none", 400, 0, updateData, Null, Null)
         ELSE IF InvalidIds(taskIds) # {}
         THEN FullAnswer("bulk", "none", 400, 0, updateData, Null,
                         [invalidIds |-> InvalidIds(taskIds)])
         ELSE IF ~isMongoAvailable
         THEN FullAnswer("bulk", "mongodb", handleDBError("MongooseError"), 0, updateData,
                         Null, DBErrorBody(NoConnection))
         ELSE \E t \in LaterReads(now) :
                LET r == Task_updateMany(docs, taskIds,
                                         Spread(updateData, [lastModified |-> now]), t)
                IN  /\ docs' = r.docs
                    /\ now' = t
                    /\ last' = Response("full", "bulk", TRUE, "mongodb",
                                        IF r.error # "none" THEN handleDBError(r.error)
                                        ELSE 200,
                                        0, updateData, Null,
                                        IF r.error # "none" THEN DBErrorBody(r)
                                        ELSE [matchedCount |-> r.matchedCount],
                                        r.docs # docs)
                    /\ UNCHANGED << tasks, nextId, seq, readyState, env, inflight >>
      /\ created' = { e \in created : IdOf(e.backend, e.task) \notin taskIds }

\* =========================================================== specifications
\* The whole program: both controllers, both stores, the connection and the clock.
Next ==
  \/ Tick
  \/ Connect
  \/ Disconnect
  \/ clearTasks
  \/ \E d \in Payloads : MayCreate /\ Simple_createTask(d)
  \/ \E id \in ReqIds : Simple_getTaskById(id)
  \/ \E id \in ReqIds : \E p \in Patches : Simple_updateTask(id, p)
  \/ \E id \in ReqIds : Simple_deleteTask(id)
  \/ \E q \in ListQueries : Simple_getAllTasks(q)
  \/ Simple_getTaskStatistics
  \/ \E q \in SearchQueries : Simple_searchTasks(q)
  \/ \E d \in Payloads : MayCreate /\ Full_createTask(d)
  \/ \E id \in ReqIds : Full_getTaskById(id)
  \/ \E id \in ReqIds : \E p \in Patches : Full_updateTask(id, p)
  \/ \E id \in ReqIds : Full_deleteTask(id)
  \/ \E q \in ListQueries : Full_getAllTasks(q)
  \/ Full_getTaskStatistics
  \/ \E q \in SearchQueries : Full_searchTasks(q)
  \/ Full_getOverdueTasks
  \/ \E ids \in BulkIds : \E p \in Patches : Full_bulkUpdateTasks(BulkBody(ids, p))

Spec == Init /\ [][Next]_vars

\* The clock stands still at its last tick: every clock read returns MaxTime.
FrozenInit ==
  /\ tasks = << >>
  /\ nextId = 1
  /\ docs = << >>
  /\ seq = 0
  /\ readyState = 0
  /\ now = MaxTime
  /\ last = NoRequest
  /\ env = "production"
  /\ inflight = Idle
  /\ created = {}

\* The writes of the stores, through the simplified controller and clearTasks,
\* with the clock standing still.
CountNext ==
  \/ Connect
  \/ Disconnect
  \/ clearTasks
  \/ \E d \in Payloads : MayCreate /\ Simple_createTask(d)
  \/ \E id \in ReqIds : \E p \in Patches : Simple_updateTask(id, p)
  \/ \E id \in ReqIds : Simple_deleteTask(id)

CountSpec == FrozenInit /\ [][CountNext]_vars

\* Creates and updates of both controllers under a running clock.
MayCreateTimed == (nextId - 1) + seq < MaxTimed
TimePayloads == { [text |-> "buy milk"] }
TimePatches ==
  { [completed |-> TRUE],
    [createdAt |-> FarFuture, lastModified |-> 0, updatedAt |-> 0] }

TimeNext ==
  \/ Tick
  \/ Connect
  \/ Disconnect
  \/ \E d \in TimePayloads : MayCreateTimed /\ Simple_createTask(d)
  \/ \E d \in TimePayloads : MayCreateTimed /\ Full_createTask(d)
  \/ \E id \in ReqIds : \E p \in TimePatches : Simple_updateTask(id, p)
  \/ \E id \in ReqIds : \E p \in TimePatches : Full_updateTask(id, p)
  \/ \E ids \in BulkIds : \E p \in TimePatches : Full_bulkUpdateTasks(BulkBody(ids, p))

TimeSpec == Init /\ [][TimeNext]_vars

\* Every operation of both controllers and the connection events, with the
\* clock standing still, one creation payload and one update payload.
RoutePayloads == { [text |-> "buy milk"] }
RoutePatches == { [completed |-> TRUE] }

RouteNext ==
  \/ Connect
  \/ Disconnect
  \/ clearTasks
  \/ \E d \in RoutePayloads : MayCreate /\ Simple_createTask(d)
  \/ \E id \in ReqIds : Simple_getTaskById(id)
  \/ \E id \in ReqIds : \E p \in RoutePatches : Simple_updateTask(id, p)
  \/ \E id \in ReqIds : Simple_deleteTask(id)
  \/ \E q \in ListQueries : Simple_getAllTasks(q)
  \/ Simple_getTaskStatistics
  \/ \E q \in SearchQueries : Simple_searchTasks(q)
  \/ \E d \in RoutePayloads : MayCreate /\ Full_createTask(d)
  \/ \E id \in ReqIds : Full_getTaskById(id)
  \/ \E id \in ReqIds : \E p \in RoutePatches : Full_updateTask(id, p)
  \/ \E id \in ReqIds : Full_deleteTask(id)
  \/ \E q \in ListQueries : Full_getAllTasks(q)
  \/ Full_getTaskStatistics
  \/ \E q \in SearchQueries : Full_searchTasks(q)
  \/ Full_getOverdueTasks
  \/ \E ids \in BulkIds : \E p \in RoutePatches : Full_bulkUpdateTasks(BulkBody(ids, p))

RouteSpec == FrozenInit /\ [][RouteNext]_vars

\* The validation rules: creates and updates of both controllers, the seeding
\* of the sample data and the document methods, with the clock standing still
\* at MaxTime, in the day that starts at 0.
Yesterday == 0 - DayLength
TenTags == [i \in 1..MaxTags |-> "t"]
ElevenTags == [i \in 1..(MaxTags + 1) |-> "t"]

ValidPayloads ==
  { [text |-> "buy milk", tags |-> TenTags, dueDate |-> 0],
    [text |-> " ab "],
    [text |-> TooLongText],
    [text |-> "  "],
    [text |-> "call mom", tags |-> ElevenTags],
    [text |-> "pay rent", priority |-> "urgent"],
    [text |-> "file tax", dueDate |-> Yesterday] }

ValidPatches ==
  { [text |-> " ab "],
    [tags |-> ElevenTags],
    [priority |-> "urgent"],
    [dueDate |-> Yesterday] }

\* The ids the update requests name: the first id of either store.
ValidIds == { 1, ObjectId(1) }

ValidNext ==
  \/ Connect
  \/ Disconnect
  \/ initializeSampleData
  \/ \E d \in ValidPayloads : MayCreateTimed /\ Simple_createTask(d)
  \/ \E d \in ValidPayloads : MayCreateTimed /\ Full_createTask(d)
  \/ \E id \in ValidIds : \E p \in ValidPatches : Simple_updateTask(id, p)
  \/ \E id \in ValidIds : \E p \in ValidPatches : Full_updateTask(id, p)
  \/ \E p \in ValidPatches : Full_bulkUpdateTasks(BulkBody({ ObjectId(1) }, p))
  \/ addTag(ObjectId(1), "New")

ValidSpec == FrozenInit /\ [][ValidNext]_vars

\* The read operations of both controllers over collections that creates of
\* both controllers have filled, with the clock standing still.
QueryPayloads ==
  { [text |-> "buy milk"],
    [text |-> "Fix bug", completed |-> TRUE, priority |-> "high", category |-> "work"] }

\* req.query of the list endpoints: filters, a search and pages of one task.
PageQueries ==
  { EmptyObject,
    [limit |-> 1],
    [page |-> 2, limit |-> 1],
    [completed |-> TRUE],
    [search |-> "b"],
    [search |-> "milk"] }

\* q of the search endpoints.
QuerySearches == { "b", "b ", "bug", "zz" }

QueryNext ==
  \/ Connect
  \/ Disconnect
  \/ \E d \in QueryPayloads : MayCreate /\ Simple_createTask(d)
  \/ \E d \in QueryPayloads : MayCreate /\ Full_createTask(d)
  \/ \E q \in PageQueries : Simple_getAllTasks(q)
  \/ \E q \in PageQueries : Full_getAllTasks(q)
  \/ \E q \in QuerySearches : Simple_searchTasks(q)
  \/ \E q \in QuerySearches : Full_searchTasks(q)
  \/ Simple_getTaskStatistics
  \/ Full_getTaskStatistics

QuerySpec == FrozenInit /\ [][QueryNext]_vars

\* The overdue query of the database as the clock advances: tasks with and
\* without a dueDate, completed and reopened through the update endpoint and
\* through the document methods.
OverduePayloads ==
  { [text |-> "buy milk"],
    [text |-> "pay rent", dueDate |-> 0] }

OverduePatches == { [completed |-> TRUE], [completed |-> FALSE] }

OverdueNext ==
  \/ Tick
  \/ Connect
  \/ Disconnect
  \/ \E d \in OverduePayloads : MayCreateTimed /\ Simple_createTask(d)
  \/ \E d \in OverduePayloads : MayCreateTimed /\ Full_createTask(d)
  \/ \E id \in ObjectIds : \E p \in OverduePatches : Full_updateTask(id, p)
  \/ \E id \in ObjectIds : markComplete(id)
  \/ \E id \in ObjectIds : markIncomplete(id)
  \/ \E id \in ObjectIds : Full_getTaskById(id)
  \/ Full_getOverdueTasks

OverdueSpec == Init /\ [][OverdueNext]_vars

\* Bulk updates of the database: requests without taskIds, with no ids, with
\* well-formed ids and with a malformed id next to the id of a stored task.
BulkPayloads == { [text |-> "buy milk"], [text |-> "pay rent", priority |-> "low"] }

BulkPatches == { [completed |-> TRUE], [priority |-> "high"] }

BulkBodies ==
  { BulkBody(ids, p) : ids \in BulkIds, p \in BulkPatches }
    \cup { [updateData |-> p] : p \in BulkPatches }

BulkNext ==
  \/ Connect
  \/ Disconnect
  \/ \E d \in BulkPayloads : MayCreate /\ Simple_createTask(d)
  \/ \E d \in BulkPayloads : MayCreate /\ Full_createTask(d)
  \/ \E b \in BulkBodies : Full_bulkUpdateTasks(b)

BulkSpec == FrozenInit /\ [][BulkNext]_vars

\* Creation with payloads that break no rule, one rule and several rules at
\* once, through both controllers.
RulePayloads ==
  { [text |-> "buy milk"],
    [text |-> "ab", priority |-> "urgent"],
    [text |-> "ab", priority |-> "urgent", tags |-> ElevenTags],
    [text |-> "call mom", tags |-> ElevenTags] }

RuleNext ==
  \/ Connect
  \/ Disconnect
  \/ \E d \in RulePayloads : MayCreate /\ Simple_createTask(d)
  \/ \E d \in RulePayloads : MayCreate /\ Full_createTask(d)

RuleSpec == FrozenInit /\ [][RuleNext]_vars

\* Texts with inner runs of whitespace, created and written by updates through
\* both controllers.
TextPayloads ==
  { [text |-> "buy milk"], [text |-> "a  b"], [text |-> LongSpacedText] }

TextPatches == { [text |-> "a  b"], [completed |-> TRUE] }

TextNext ==
  \/ Connect
  \/ Disconnect
  \/ \E d \in TextPayloads : MayCreate /\ Simple_createTask(d)
  \/ \E d \in TextPayloads : MayCreate /\ Full_createTask(d)
  \/ \E id \in ValidIds : \E p \in TextPatches : Simple_updateTask(id, p)
  \/ \E id \in ValidIds : \E p \in TextPatches : Full_updateTask(id, p)
  \/ \E id \in ValidIds : markComplete(id)

TextSpec == FrozenInit /\ [][TextNext]_vars

\* Requests that fail with different errors, through both controllers, under
\* every value of NODE_ENV.
Envs == { "development", "production", "test" }

EnvInit ==
  /\ tasks = << >>
  /\ nextId = 1
  /\ docs = << >>
  /\ seq = 0
  /\ readyState = 0
  /\ now = MaxTime
  /\ last = NoRequest
  /\ env \in Envs
  /\ inflight = Idle
  /\ created = {}

EnvPayloads == { [text |-> "buy milk"], [text |-> "call mom", tags |-> ElevenTags] }

EnvPatches == { [completed |-> TRUE], [_id |-> ObjectId(2)] }

EnvNext ==
  \/ Connect
  \/ Disconnect
  \/ \E d \in EnvPayloads : MayCreate /\ Simple_createTask(d)
  \/ \E d \in EnvPayloads : MayCreate /\ Full_createTask(d)
  \/ \E id \in ValidIds : Simple_getTaskById(id)
  \/ \E id \in ValidIds : Full_getTaskById(id)
  \/ \E id \in ValidIds : \E p \in EnvPatches : Simple_updateTask(id, p)
  \/ \E id \in ValidIds : \E p \in EnvPatches : Full_updateTask(id, p)

EnvSpec == EnvInit /\ [][EnvNext]_vars

\* The simplified controller with its requests on the database suspended at
\* the await of the store call, while the connection changes.
AwaitPayloads == { [text |-> "buy milk"], [text |-> "Fix bug", category |-> "work"] }

AwaitQueries == { EmptyObject, [limit |-> 1], [search |-> "b"] }

AwaitNext ==
  \/ Connect
  \/ Disconnect
  \/ \E d \in AwaitPayloads : MayCreate /\ Simple_createTask(d)
  \/ \E q \in AwaitQueries : Simple_getAllTasks(q)
  \/ \E d \in AwaitPayloads : MayCreate /\ Simple_createTask_call(d)
  \/ Simple_createTask_resume
  \/ \E q \in AwaitQueries : Simple_getAllTasks_call(q)
  \/ Simple_getAllTasks_resume

AwaitSpec == FrozenInit /\ [][AwaitNext]_vars

\* Lists with the includeOverdue flag, alone and next to completed=true, over
\* tasks with and without a dueDate while the clock advances.
FlagPayloads ==
  { [text |-> "buy milk"],
    [text |-> "pay rent", dueDate |-> 0],
    [text |-> "Fix bug", dueDate |-> 0, completed |-> TRUE] }

FlagQueries ==
  { EmptyObject,
    [includeOverdue |-> TRUE],
    [includeOverdue |-> TRUE, completed |-> TRUE] }

FlagNext ==
  \/ Tick
  \/ Connect
  \/ Disconnect
  \/ \E d \in FlagPayloads : MayCreateTimed /\ Simple_createTask(d)
  \/ \E d \in FlagPayloads : MayCreateTimed /\ Full_createTask(d)
  \/ \E q \in FlagQueries : Simple_getAllTasks(q)
  \/ \E q \in FlagQueries : Full_getAllTasks(q)

FlagSpec == Init /\ [][FlagNext]_vars

\* The in-memory store alone (the connection is never opened), with the clock
\* standing still: creates, which all read the same createdAt, updates that
\* also rewrite createdAt, deletes and filtered lists.
SortPayloads ==
  { [text |-> "buy milk"],
    [text |-> "Fix bug", completed |-> TRUE, priority |-> "high"] }

SortPatches == { [completed |-> TRUE], [createdAt |-> 0], [createdAt |-> FarFuture] }

SortQueries == { EmptyObject, [completed |-> TRUE], [priority |-> "high"] }

SortNext ==
  \/ \E d \in SortPayloads : MayCreate /\ Simple_createTask(d)
  \/ \E id \in MemIds : \E p \in SortPatches : Simple_updateTask(id, p)
  \/ \E id \in MemIds : Simple_deleteTask(id)
  \/ \E q \in SortQueries : Simple_getAllTasks(q)

SortSpec == FrozenInit /\ [][SortNext]_vars

\* Priorities written and queried in upper and lower case, through both
\* controllers.
CasePayloads ==
  { [text |-> "buy milk", priority |-> "HIGH"],
    [text |-> "Fix bug", priority |-> "low"] }

CaseQueries == { [priority |-> "high"], [priority |-> "HIGH"], [priority |-> "low"] }

CaseNext ==
  \/ Connect
  \/ Disconnect
  \/ \E d \in CasePayloads : MayCreate /\ Simple_createTask(d)
  \/ \E d \in CasePayloads : MayCreate /\ Full_createTask(d)
  \/ \E q \in CaseQueries : Simple_getAllTasks(q)
  \/ \E q \in CaseQueries : Full_getAllTasks(q)
  \/ Simple_getTaskStatistics

CaseSpec == FrozenInit /\ [][CaseNext]_vars

\* The in-memory store under creations, updates and deletions at one instant;
\* the patches rewrite ordinary fields and the id the matcher reads.
FramePayloads ==
  { [text |-> "buy milk"],
    [text |-> "Fix bug", completed |-> TRUE, priority |-> "high"] }

FramePatches ==
  { [completed |-> TRUE],
    [text |-> "pay rent", priority |-> "low"],
    [id |-> 1] }

FrameNext ==
  \/ \E d \in FramePayloads : MayCreate /\ Simple_createTask(d)
  \/ \E id \in MemIds : \E p \in FramePatches : Simple_updateTask(id, p)
  \/ \E id \in MemIds : Simple_deleteTask(id)

FrameSpec == FrozenInit /\ [][FrameNext]_vars

\* =================================================================== claims
\* findById on the store a task lives in.
FindIn(backend, id) ==
  IF backend = "memory" THEN InMemoryTask_findById(tasks, id)
  ELSE Task_findById(docs, id).result

\* The stored tasks of both backends, each with the id its store knows it by.
Stored ==
  { [backend |-> "memory", id |-> tasks[i].id, task |-> tasks[i]] : i \in 1..Len(tasks) }
  \cup { [backend |-> "mongodb", id |-> docs[i]._id, task |-> docs[i]] : i \in 1..Len(docs) }

\* C1: a task T returned by create is what findById(T.id) returns, field by
\* field, as long as no update or delete has named T.id.
C1_CreateFindByIdRoundTrip ==
  \A e \in created : FindIn(e.backend, IdOf(e.backend, e.task)) = e.task

\* C2: no two stored tasks share an id, and every stored task still has the id
\* it was given at creation.
C2_IdUniqueAndImmutable ==
  /\ \A i, j \in 1..Len(tasks) : i # j => tasks[i].id # tasks[j].id
  /\ \A i, j \in 1..Len(docs) : i # j => docs[i]._id # docs[j]._id
  /\ \A e \in Stored : e.id = e.task.origId

\* C3: an update leaves the task's createdAt as it was.
C3_CreatedAtUnchangedByUpdate ==
  (last.op = "update" /\ last.status = 200)
    => last.data.createdAt = last.prev.createdAt

\* C4: every stored task has createdAt <= lastModified.
C4_CreatedAtNotAfterLastModified ==
  \A e \in Stored : e.task.createdAt <= e.task.lastModified

\* C5: no step lowers the lastModified of a stored task: an update, single or
\* bulk, leaves it at or after its previous value, whatever the patch carries.
C5_LastModifiedNeverDecreases ==
  [][ /\ \A i \in 1..Len(tasks) : \A j \in 1..Len(tasks') :
           tasks[i].origId = tasks'[j].origId
             => tasks'[j].lastModified >= tasks[i].lastModified
      /\ \A i \in 1..Len(docs) : \A j \in 1..Len(docs') :
           docs[i].origId = docs'[j].origId
             => docs'[j].lastModified >= docs[i].lastModified ]_vars

\* C5 witness: an update whose patch carried a lastModified before the task's
\* own has been answered 200, and the task's lastModified did not go back.
C5_Witness ==
  /\ last.op = "update"
  /\ last.status = 200
  /\ Has(last.patch, "lastModified")
  /\ last.patch.lastModified < last.prev.lastModified
  /\ last.data.lastModified >= last.prev.lastModified

\* C6: the task returned by create has createdAt = lastModified.
C6_CreateStampsEqual ==
  (last.op = "create" /\ last.status = 201)
    => last.data.createdAt = last.data.lastModified

\* C7: after a delete that succeeded findById of the same id finds nothing,
\* and a delete that reached a store with an id naming no stored task is
\* answered 404, not an error, and changes nothing.
C7_DeleteThenNotFound ==
  /\ (last.op = "delete" /\ last.status \in {200, 204})
       => FindIn(last.backend, last.id) = Null
  /\ (last.op = "delete" /\ last.backend # "none" /\ last.prev = Null)
       => last.status = 404 /\ ~last.changed

\* C8: countDocuments with the empty filter is the number of stored tasks.
C8_CountAllIsSize ==
  /\ InMemoryTask_countDocuments(tasks, EmptyObject) = Len(tasks)
  /\ Task_countDocuments(docs, EmptyObject) = Len(docs)

\* C8 witness: the count is taken over a non-empty in-memory collection
\* right after an update or a delete changed it.
C8_Witness ==
  /\ Len(tasks) >= 1
  /\ last.op \in {"update", "delete"}
  /\ last.changed
  /\ last.backend = "memory"
  /\ InMemoryTask_countDocuments(tasks, EmptyObject) = Len(tasks)

\* C9: a request that arrives without a connection is executed on the
\* in-memory model, one that arrives with a connection on the database.
C9_RoutedByConnection ==
  (last.op \notin {"none", "clear"} /\ last.backend # "none")
    => (last.backend = IF last.conn THEN "mongodb" ELSE "memory")

\* C10: a request executed on one backend leaves the other backend's tasks
\* alone, a request that arrives during an outage leaves the database alone,
\* and a change of the connection state leaves both stores alone.
C10_StoresAreSeparate ==
  [][ /\ last'.backend = "memory" => (docs' = docs /\ seq' = seq)
      /\ last'.backend = "mongodb" => (tasks' = tasks /\ nextId' = nextId)
      /\ (last'.op # "none" /\ ~last'.conn) => docs' = docs
      /\ readyState' # readyState => store' = store ]_vars

\* C10 witness: a write has been executed on the in-memory store while the
\* database holds documents, after the connection dropped.
C10_Witness ==
  /\ last.backend = "memory"
  /\ last.changed
  /\ ~last.conn
  /\ docs # << >>
  /\ tasks # << >>

\* The length limits of text.
InLimits(text) == Len(text) >= MinLength /\ Len(text) <= MaxLength

\* C11: a create whose trimmed text has fewer than 3 or more than 255
\* characters is not answered 201, and every stored task has a text of 3 to
\* 255 characters.
C11_TextLengthEnforced ==
  /\ (last.op = "create" /\ last.status = 201) => InLimits(Trim(last.patch.text))
  /\ \A e \in Stored : InLimits(e.task.text)

\* C12: every stored task has at most 10 tags.
C12_AtMostTenTags ==
  \A e \in Stored : Len(e.task.tags) <= MaxTags

\* C13: every stored task has a priority among low, medium and high.
C13_PriorityInEnum ==
  \A e \in Stored : e.task.priority \in Priorities

\* The tasks of a backend.
TasksOf(backend) == IF backend = "memory" THEN tasks ELSE docs

\* C14: the statistics carry total, completed, active, overdue and
\* completionRate, counted over all tasks of the backend, and completionRate
\* is 0 for an empty task set and completed / total * 100 otherwise.
C14_StatisticsComplete ==
  (last.op = "stats" /\ last.status = 200) =>
    LET d == last.data
        all == TasksOf(last.backend)
        done == Count(all, LAMBDA t : t.completed = TRUE)
    IN  /\ { "total", "completed", "active", "overdue", "completionRate" } \subseteq DOMAIN d
        /\ d.total = Len(all)
        /\ d.completed = done
        /\ d.active = Len(all) - done
        /\ Len(all) = 0 => d.completionRate.num = 0
        /\ Len(all) > 0 =>
             d.completionRate.num * Len(all) = done * 100 * d.completionRate.den

\* The tasks of the backend that match the filter of the query q.
Matching(backend, q) ==
  LET bySearch(t) == ~Has(q, "search")
                     \/ Includes(t.text, q.search) \/ Includes(t.category, q.search)
  IN  IF backend = "memory"
      THEN SelectSeq(InMemoryTask_find(tasks, Without(q, PagingKeys \cup {"search"})),
                     bySearch)
      ELSE Task_find(docs, Without(q, PagingKeys))

\* A list or search request that was answered 200.
Listed == last.op \in {"list", "search"} /\ last.status = 200

\* C16: no list or search request whose search text has fewer than 2
\* characters after trimming is answered 200, and a search text that matches
\* no task is answered with an empty sequence.
C16_ShortSearchRejected ==
  (Listed /\ Has(last.patch, "search")) =>
    /\ Len(Trim(last.patch.search)) >= 2
    /\ Matching(last.backend, last.patch) = << >> => last.data.items = << >>

\* C17: totalItems of a list response is the number of tasks of the backend
\* that match the filter, whatever the page and the limit.
C17_TotalItemsIsMatchCount ==
  (Listed /\ Has(last.data, "pagination")) =>
    last.data.pagination.totalItems = Len(Matching(last.backend, last.patch))

\* C18: a list response carries totalPages = ceil(totalItems / limit),
\* hasNextPage = (currentPage < totalPages), hasPrevPage = (currentPage > 1)
\* and itemsPerPage = limit.
C18_PaginationMetadata ==
  (last.op = "list" /\ last.status = 200) =>
    LET p == last.data.pagination
        limit == OrDefault(last.patch, "limit",
                           IF last.ctrl = "simple" THEN SimpleDefaultLimit ELSE DefaultLimit)
    IN  /\ { "totalPages", "hasNextPage", "hasPrevPage", "itemsPerPage" } \subseteq DOMAIN p
        /\ p.totalPages = CeilDiv(p.totalItems, limit)
        /\ p.hasNextPage = (p.currentPage < p.totalPages)
        /\ p.hasPrevPage = (p.currentPage > 1)
        /\ p.itemsPerPage = limit

\* C19: no create or update that carries a dueDate before the start of the
\* current day is accepted (the clock stands still, so `now` is the time of
\* the request).
C19_PastDueDateRejected ==
  ( /\ last.op \in {"create", "update"}
    /\ last.status \in {200, 201}
    /\ Has(last.patch, "dueDate")
    /\ last.patch.dueDate # NoDate )
    => last.patch.dueDate >= StartOfDay(now)

\* The items of a response, as a set.
Items(s) == { s[i] : i \in 1..Len(s) }

\* C15: the overdue query returns exactly the stored tasks that are not
\* completed and whose dueDate is before the clock: a task enters it when its
\* dueDate passes, leaves it when it is completed, without leaving the store,
\* and enters it again when it is reopened.
C15_OverdueFollowsCompletion ==
  /\ (last.op = "overdue" /\ last.status = 200) =>
       \A e \in Stored :
         e.backend = "mongodb" =>
           ( e.task \in Items(last.data)
               <=> ( /\ e.task.dueDate # NoDate
                     /\ e.task.dueDate < now
                     /\ e.task.completed = FALSE ) )
  /\ (last.op = "update" /\ last.status = 200 /\ last.backend = "mongodb") =>
       /\ FindIn("mongodb", last.id) # Null
       /\ FindIn("mongodb", last.id).completed = last.patch.completed

\* C15 witness: the overdue query has been answered while a task whose dueDate
\* has passed is stored completed after a modification: it is absent from the
\* answer and still found by its id.
C15_Witness ==
  /\ last.op = "overdue"
  /\ last.status = 200
  /\ \E e \in Stored :
       /\ e.backend = "mongodb"
       /\ e.task.completed = TRUE
       /\ e.task.dueDate # NoDate
       /\ e.task.dueDate < now
       /\ e.task.lastModified > e.task.createdAt
       /\ e.task \notin Items(last.data)
       /\ FindIn(e.backend, e.id) = e.task

\* A bulk request the handler has to reject: taskIds missing, empty, or with a
\* malformed id.
Rejected(body) ==
  \/ ~Has(body, "taskIds")
  \/ body.taskIds = {}
  \/ \E id \in body.taskIds : ~isValid(id)

\* C20: a bulk update whose taskIds are missing, empty or contain a malformed
\* id is answered 400 and leaves both stores as they were, the tasks named by
\* its well-formed ids included.
C20_BulkRejectsMalformedIds ==
  [][ \A b \in BulkBodies :
        (Full_bulkUpdateTasks(b) /\ Rejected(b)) =>
          (last'.status = 400 /\ store' = store) ]_vars

\* C20 witness: with the database connected, a bulk request naming a stored,
\* not completed task next to a malformed id has been answered 400.
C20_Witness ==
  /\ last.op = "bulk"
  /\ last.status = 400
  /\ last.conn = TRUE
  /\ Has(last.data, "invalidIds")
  /\ last.data.invalidIds = { 1 }
  /\ \E i \in 1..Len(docs) :
       /\ docs[i]._id = ObjectId(1)
       /\ docs[i].completed = FALSE
       /\ docs[i].priority # "high"

\* The validation rules a create payload violates: the length of the trimmed
\* text, the enumeration of priority, the number of tags.
ViolatedRules(d) ==
  (IF Has(d, "text") /\ InLimits(Trim(d.text)) THEN {} ELSE { "text" })
    \cup (IF Has(d, "priority") /\ Lower(d.priority) \notin Priorities
          THEN { "priority" } ELSE {})
    \cup (IF Has(d, "tags") /\ Len(d.tags) > MaxTags THEN { "tags" } ELSE {})

\* C21: with the database connected, a create whose payload violates
\* validation rules is answered 400 with one detail for every violated rule.
C21_EveryViolationReported ==
  [][ \A d \in RulePayloads :
        ( /\ isMongoAvailable
          /\ ViolatedRules(d) # {}
          /\ (Simple_createTask(d) \/ Full_createTask(d)) )
        => ( /\ last'.status = 400
             /\ Has(last'.data, "details")
             /\ last'.data.details = ViolatedRules(d) ) ]_vars

\* C22: the text of every stored task is in normal form (no leading or
\* trailing whitespace, no two adjacent whitespace characters), and a create
\* is accepted by the length of the normalized text.
C22_StoredTextNormalized ==
  /\ \A e \in Stored : Collapse(e.task.text) = e.task.text
  /\ (last.op = "create" /\ last.status = 201) => InLimits(Collapse(last.patch.text))

\* C23: outside development mode every 500 response of either controller has
\* the same body, whatever error the request failed with: the details are the
\* fixed string, never the message of the error.
C23_ErrorDetailHidden ==
  (last.ctrl \in {"simple", "full"} /\ last.status = 500 /\ env # "development") =>
    last.data = [ details |-> "Internal server error" ]

\* C23 witness: outside development mode a request has failed on the connected
\* database, hence with an error other than the missing connection.
C23_Witness ==
  /\ env # "development"
  /\ last.status = 500
  /\ last.conn = TRUE
  /\ last.ctrl \in {"simple", "full"}

\* C24: the storage a response of the simplified controller reports is the
\* backend that executed the request's store call.
C24_StorageIsExecutingBackend ==
  (last.ctrl = "simple" /\ Has(last.data, "storage")) => last.data.storage = last.backend

\* The complete sequence of the tasks matching q, in the order the handler of
\* ctrl lists them.
Ordered(ctrl, backend, q) ==
  IF ctrl = "full" THEN SortNewestFirst(Matching(backend, q)) ELSE Matching(backend, q)

\* C25: a list response holds at most limit tasks, and it is page `page` of
\* the complete ordered sequence of the matching tasks cut into pages of
\* limit tasks, so that the pages are disjoint and concatenate to the whole.
C25_PagesPartitionMatches ==
  (last.op = "list" /\ last.status = 200) =>
    LET q == last.patch
        page == OrDefault(q, "page", 1)
        limit == last.data.pagination.itemsPerPage
    IN  /\ Len(last.data.items) <= limit
        /\ last.data.items
             = Slice(Ordered(last.ctrl, last.backend, q), (page - 1) * limit, limit)

\* C26: every task of a list answered to includeOverdue=true has a dueDate
\* before the clock and is not completed, whatever the other filters.
C26_IncludeOverdueForcesFilter ==
  ( /\ last.op = "list"
    /\ last.status = 200
    /\ Has(last.patch, "includeOverdue")
    /\ last.patch.includeOverdue = TRUE ) =>
    \A t \in Items(last.data.items) :
      t.dueDate # NoDate /\ t.dueDate < now /\ t.completed = FALSE

\* s is ordered newest first by createdAt, and among equal createdAt the task
\* created later (the greater original id) comes first.
IsNewestFirst(s) ==
  \A i, j \in 1..Len(s) :
    i < j => \/ s[i].createdAt > s[j].createdAt
             \/ s[i].createdAt = s[j].createdAt /\ s[i].origId > s[j].origId

\* The stored tasks the filter of q keeps.
Kept(q) ==
  { t \in Items(tasks) :
      /\ Has(q, "completed") => t.completed = q.completed
      /\ Has(q, "priority") => t.priority = q.priority }

\* C27: for every filter, InMemoryTask.find returns exactly the matching
\* tasks, newest first by createdAt and, among equal createdAt, the one created
\* later first; a list leaves the stored collection as it was.
C27_FindNewestFirst ==
  [][ /\ \A q \in SortQueries :
           LET found == InMemoryTask_find(tasks', q)
           IN  /\ IsNewestFirst(found)
               /\ Items(found) = Kept(q)'
               /\ Len(found) = Cardinality(Kept(q)')
      /\ (\E q \in SortQueries : Simple_getAllTasks(q)) => tasks' = tasks ]_vars

\* C27 witness: a list of two tasks has been answered while the stored
\* collection is not in createdAt order, so that find had to reorder its copy.
C27_Witness ==
  /\ last.op = "list"
  /\ last.backend = "memory"
  /\ Len(last.data.items) >= 2
  /\ \E i, j \in 1..Len(tasks) : i < j /\ tasks[i].createdAt < tasks[j].createdAt

\* C28: a list filtered by priority returns exactly the stored tasks of the
\* backend whose priority is the requested one, letter case aside, and the
\* statistics count every stored task.
C28_PriorityFilterExact ==
  /\ (last.op = "list" /\ last.status = 200 /\ Has(last.patch, "priority")) =>
       Items(last.data.items)
         = { t \in Items(TasksOf(last.backend)) :
               Lower(t.priority) = Lower(last.patch.priority) }
  /\ (last.op = "stats" /\ last.status = 200) =>
       last.data.total = Len(TasksOf(last.backend))

\* C29: the overdue count of the statistics is the number of tasks the overdue
\* query returns at the same instant: the tasks that are not completed and
\* have a dueDate before the clock.
C29_OverdueCountIsOverdueQuery ==
  (last.op = "stats" /\ last.status = 200 /\ Has(last.data, "overdue")) =>
    /\ last.data.overdue = Len(Task_findOverdue(docs, now))
    /\ last.data.overdue
         = Cardinality({ e \in Stored : /\ e.backend = "mongodb"
                                        /\ e.task.dueDate # NoDate
                                        /\ e.task.dueDate < now
                                        /\ e.task.completed = FALSE })

\* C30: an in-memory update of a stored task X keeps the number of tasks, every
\* other task and every position, and changes in X only the patched fields and
\* updatedAt/lastModified; an update of an id that is not stored changes nothing
\* and is answered 404 with no task.
C30_UpdateFrame ==
  [][ \A id \in MemIds : \A p \in FramePatches :
        (~isMongoAvailable /\ Simple_updateTask(id, p)) =>
          LET named(t) == t._id = id \/ t.id = id
              X == FindIndex(tasks, named)
              stamps == { "updatedAt", "lastModified" }
          IN  IF X = 0
              THEN /\ tasks' = tasks
                   /\ nextId' = nextId
                   /\ last'.status = 404
                   /\ last'.data = Null
              ELSE /\ Len(tasks') = Len(tasks)
                   /\ nextId' = nextId
                   /\ \A j \in 1..Len(tasks) : j # X => tasks'[j] = tasks[j]
                   /\ DOMAIN tasks'[X] = DOMAIN tasks[X] \cup DOMAIN p
                   /\ \A k \in DOMAIN tasks[X] \ (DOMAIN p \cup stamps) :
                        tasks'[X][k] = tasks[X][k]
                   /\ \A k \in DOMAIN p \ stamps : tasks'[X][k] = p[k]
                   /\ last'.status = 200
                   /\ last'.data = tasks'[X] ]_vars

\* C30 witness: with two tasks stored, an update of the second one in the
\* collection has been answered 200 and has changed it.
C30_Witness ==
  /\ last.op = "update"
  /\ last.backend = "memory"
  /\ last.status = 200
  /\ last.changed
  /\ Len(tasks) >= 2
  /\ tasks[2] = last.data
  /\ tasks[1] # last.data

====
